---- MODULE Spec2Model ----
(***************************************************************************)
(* PDF Comparator 3.0 (src/main.py): the background Worker that extracts   *)
(* the text of two PDF files, compares the two line sequences with         *)
(* difflib.Differ and renders the report, under cooperative cancellation   *)
(* by stop().                                                              *)
(*                                                                         *)
(* Strings are sequences of one-character strings, so that prefixes,       *)
(* line splitting and concatenation are computed and not assumed.          *)
(* Indices of the difflib operators are 0-based and half-open, as in the   *)
(* Python code (At).                                                       *)
(***************************************************************************)
EXTENDS Integers, Sequences, FiniteSets

\* ------------------------------------------------------------------ bounds
\* longest line sequence compared exhaustively
MaxLines == 3
\* largest page count of a document read by the fallback strategy
MaxPages == 2
\* largest number of lines of a document whose lines look like diff entries
MaxFmtLines == 2
\* largest number of comparisons started from the window
MaxRuns == 2

\* ------------------------------------------------------- program constants
\* the fixed progress checkpoints of Worker.run
ProgressAfterFirst == 30
ProgressAfterSecond == 60
ProgressBeforeFormat == 80
ProgressDone == 100
\* the fallback progress: 10 + (i * 40 // len(reader.pages))
FallbackBase == 10
FallbackSpan == 40

\* ------------------------------------------------------------------ strings
At(s, i) == s[i + 1]

\* str.startswith for a two-character prefix
StartsWith(line, c1, c2) == Len(line) >= 2 /\ line[1] = c1 /\ line[2] = c2

\* str.isspace for one character
IsSpace(c) == c \in {" ", "\t", "\n", "\r"}

RECURSIVE RStrip(_)
RStrip(s) ==
    IF s # <<>> /\ IsSpace(s[Len(s)]) THEN RStrip(SubSeq(s, 1, Len(s) - 1)) ELSE s

\* str.splitlines: a line ends at each line break; a final line without a
\* line break is kept, an empty rest after the last break is not a line.
RECURSIVE SplitFrom(_, _, _)
SplitFrom(text, pos, cur) ==
    IF pos > Len(text) THEN (IF cur = <<>> THEN <<>> ELSE <<cur>>)
    ELSE IF text[pos] = "\n" THEN <<cur>> \o SplitFrom(text, pos + 1, <<>>)
    ELSE SplitFrom(text, pos + 1, Append(cur, text[pos]))

splitlines(text) == SplitFrom(text, 1, <<>>)

\* ------------------------------------------------- difflib.SequenceMatcher
\* autojunk: in a sequence b of 200 or more elements, an element occurring
\* more than len(b) // 100 + 1 times is dropped from the index b2j.
IsPopular(b, e) ==
    /\ Len(b) >= 200
    /\ Cardinality({j \in 1..Len(b) : b[j] = e}) > (Len(b) \div 100) + 1

\* j2len[j] after row i of find_longest_match: the length of the run of
\* equal indexed elements that ends at a[i], b[j] inside the window.
RECURSIVE RunLen(_, _, _, _, _, _)
RunLen(a, b, alo, blo, i, j) ==
    IF i < alo \/ j < blo THEN 0
    ELSE IF At(a, i) = At(b, j) /\ ~IsPopular(b, At(b, j))
         THEN 1 + RunLen(a, b, alo, blo, i - 1, j - 1)
         ELSE 0

RECURSIVE ExtendBack(_, _, _, _, _)
ExtendBack(a, b, alo, blo, m) ==
    IF m[1] > alo /\ m[2] > blo /\ At(a, m[1] - 1) = At(b, m[2] - 1)
    THEN ExtendBack(a, b, alo, blo, <<m[1] - 1, m[2] - 1, m[3] + 1>>)
    ELSE m

RECURSIVE ExtendFwd(_, _, _, _, _)
ExtendFwd(a, b, ahi, bhi, m) ==
    IF m[1] + m[3] < ahi /\ m[2] + m[3] < bhi /\ At(a, m[1] + m[3]) = At(b, m[2] + m[3])
    THEN ExtendFwd(a, b, ahi, bhi, <<m[1], m[2], m[3] + 1>>)
    ELSE m

\* find_longest_match, the test of one cell: k > bestsize is strict
Better(best, i, j, kk) == IF kk > best[3] THEN <<i - kk + 1, j - kk + 1, kk>> ELSE best

\* find_longest_match, the two loops: the rows i and, in each row, the
\* columns j of the window are visited in increasing order
RECURSIVE ScanCells(_, _, _, _, _, _, _, _, _)
ScanCells(a, b, alo, ahi, blo, bhi, i, j, best) ==
    IF i >= ahi THEN best
    ELSE IF j >= bhi THEN ScanCells(a, b, alo, ahi, blo, bhi, i + 1, blo, best)
    ELSE ScanCells(a, b, alo, ahi, blo, bhi, i, j + 1,
                   Better(best, i, j, RunLen(a, b, alo, blo, i, j)))

\* find_longest_match: the longest block, then its extension on both sides
\* (there are no junk elements: Differ is built without linejunk, charjunk)
FindLongestMatch(a, b, alo, ahi, blo, bhi) ==
    ExtendFwd(a, b, ahi, bhi,
        ExtendBack(a, b, alo, blo,
            ScanCells(a, b, alo, ahi, blo, bhi, alo, blo, <<alo, blo, 0>>)))

\* get_matching_blocks, before the sort: x is the longest match of the
\* window; the blocks left of it, the match, the blocks right of it
\* (already in sorted order).
RECURSIVE BlocksAround(_, _, _, _, _, _, _)
BlocksAround(a, b, alo, ahi, blo, bhi, x) ==
    IF x[3] = 0 THEN <<>>
    ELSE (IF alo < x[1] /\ blo < x[2]
          THEN BlocksAround(a, b, alo, x[1], blo, x[2],
                            FindLongestMatch(a, b, alo, x[1], blo, x[2]))
          ELSE <<>>)
         \o <<x>>
         \o (IF x[1] + x[3] < ahi /\ x[2] + x[3] < bhi
             THEN BlocksAround(a, b, x[1] + x[3], ahi, x[2] + x[3], bhi,
                               FindLongestMatch(a, b, x[1] + x[3], ahi, x[2] + x[3], bhi))
             ELSE <<>>)

BlocksIn(a, b, alo, ahi, blo, bhi) ==
    BlocksAround(a, b, alo, ahi, blo, bhi, FindLongestMatch(a, b, alo, ahi, blo, bhi))

\* get_matching_blocks: adjacent blocks are collapsed
RECURSIVE Collapse(_, _)
Collapse(blocks, cur) ==
    IF blocks = <<>> THEN (IF cur[3] > 0 THEN <<cur>> ELSE <<>>)
    ELSE LET x == Head(blocks)
         IN IF cur[1] + cur[3] = x[1] /\ cur[2] + cur[3] = x[2]
            THEN Collapse(Tail(blocks), <<cur[1], cur[2], cur[3] + x[3]>>)
            ELSE (IF cur[3] > 0 THEN <<cur>> ELSE <<>>) \o Collapse(Tail(blocks), x)

\* mutant of get_matching_blocks: the closing block <<len(a), len(b), 0>>
\* is not appended
get_matching_blocks_NoSentinel(a, b) ==
    Collapse(BlocksIn(a, b, 0, Len(a), 0, Len(b)), <<0, 0, 0>>)

get_matching_blocks(a, b) ==
    Collapse(BlocksIn(a, b, 0, Len(a), 0, Len(b)), <<0, 0, 0>>)
        \o << <<Len(a), Len(b), 0>> >>

\* mutant of OpcodesFrom: i, j are set to the start of the block and not to
\* its end
RECURSIVE OpcodesFromNoAdvance(_, _, _)
OpcodesFromNoAdvance(blocks, i, j) ==
    IF blocks = <<>> THEN <<>>
    ELSE LET x == Head(blocks)
             ai == x[1]
             bj == x[2]
             size == x[3]
             tag == IF i < ai /\ j < bj THEN "replace"
                    ELSE IF i < ai THEN "delete"
                    ELSE IF j < bj THEN "insert"
                    ELSE ""
         IN (IF tag # "" THEN << <<tag, i, ai, j, bj>> >> ELSE <<>>)
            \o (IF size > 0 THEN << <<"equal", ai, ai + size, bj, bj + size>> >> ELSE <<>>)
            \o OpcodesFromNoAdvance(Tail(blocks), ai, bj)

\* get_opcodes: <<tag, i1, i2, j1, j2>>
RECURSIVE OpcodesFrom(_, _, _)
OpcodesFrom(blocks, i, j) ==
    IF blocks = <<>> THEN <<>>
    ELSE LET x == Head(blocks)
             ai == x[1]
             bj == x[2]
             size == x[3]
             tag == IF i < ai /\ j < bj THEN "replace"
                    ELSE IF i < ai THEN "delete"
                    ELSE IF j < bj THEN "insert"
                    ELSE ""
         IN (IF tag # "" THEN << <<tag, i, ai, j, bj>> >> ELSE <<>>)
            \o (IF size > 0 THEN << <<"equal", ai, ai + size, bj, bj + size>> >> ELSE <<>>)
            \o OpcodesFrom(Tail(blocks), ai + size, bj + size)

get_opcodes(a, b) == OpcodesFrom(get_matching_blocks(a, b), 0, 0)

\* ratio() = 2.0 * matches / length as the pair <<2 * matches, length>>
RECURSIVE SumSizes(_)
SumSizes(blocks) == IF blocks = <<>> THEN 0 ELSE Head(blocks)[3] + SumSizes(Tail(blocks))

Matches(a, b) == SumSizes(get_matching_blocks(a, b))

\* ------------------------------------------------------------ difflib.Differ
Rep(c, n) == [k \in 1..n |-> c]

\* _dump: one entry "<tag> <line>" per line of x[lo:hi]
Dump(tag, x, lo, hi) == [k \in 1..(hi - lo) |-> <<tag, " ">> \o At(x, lo + k - 1)]

\* mutant of PlainReplace: only the new lines are dumped
PlainReplaceAddedOnly(a, alo, ahi, b, blo, bhi) == Dump("+", b, blo, bhi)

\* _plain_replace: the shorter block is dumped first
PlainReplace(a, alo, ahi, b, blo, bhi) ==
    IF bhi - blo < ahi - alo
    THEN Dump("+", b, blo, bhi) \o Dump("-", a, alo, ahi)
    ELSE Dump("-", a, alo, ahi) \o Dump("+", b, blo, bhi)

\* the search loop of _fancy_replace, the pair a[i], b[j]. best_ratio is
\* the pair <<num, den>>. real_quick_ratio() and quick_ratio() are upper
\* bounds of ratio(), so the three-part test is the test ratio() > best_ratio.
Closer(st, i, j, num, den) ==
    IF num * st.den > st.num * den
    THEN [st EXCEPT !.num = num, !.den = den, !.bi = i, !.bj = j]
    ELSE st

SearchStep(st, i, j, ai, bj) ==
    IF ai = bj
    THEN (IF st.eqi = -1 THEN [st EXCEPT !.eqi = i, !.eqj = j] ELSE st)
    ELSE Closer(st, i, j, 2 * Matches(ai, bj), Len(ai) + Len(bj))

\* pair number p of the block: j is the outer index, i the inner one
RECURSIVE Search(_, _, _, _, _, _, _, _)
Search(a, alo, ahi, b, blo, bhi, p, st) ==
    IF p >= (ahi - alo) * (bhi - blo) THEN st
    ELSE Search(a, alo, ahi, b, blo, bhi, p + 1,
                SearchStep(st, alo + (p % (ahi - alo)), blo + (p \div (ahi - alo)),
                           At(a, alo + (p % (ahi - alo))),
                           At(b, blo + (p \div (ahi - alo)))))

\* best_ratio, cutoff = 0.74, 0.75; no synch pair and no equal pair yet
SearchStart == [num |-> 74, den |-> 100, bi |-> -1, bj |-> -1, eqi |-> -1, eqj |-> -1]

\* the tag strings built from the character opcodes of the synch pair
RECURSIVE TagsFrom(_, _)
TagsFrom(ops, side) ==
    IF ops = <<>> THEN <<>>
    ELSE LET o == Head(ops)
             la == o[3] - o[2]
             lb == o[5] - o[4]
             t == IF side = "a"
                  THEN (IF o[1] = "replace" THEN Rep("^", la)
                        ELSE IF o[1] = "delete" THEN Rep("-", la)
                        ELSE IF o[1] = "equal" THEN Rep(" ", la)
                        ELSE <<>>)
                  ELSE (IF o[1] = "replace" THEN Rep("^", lb)
                        ELSE IF o[1] = "insert" THEN Rep("+", lb)
                        ELSE IF o[1] = "equal" THEN Rep(" ", lb)
                        ELSE <<>>)
         IN t \o TagsFrom(Tail(ops), side)

\* _keep_original_ws over zip(s, tag_s)
KeepOriginalWs(s, tags) ==
    [k \in 1..(IF Len(s) < Len(tags) THEN Len(s) ELSE Len(tags)) |->
        IF tags[k] = " " /\ IsSpace(s[k]) THEN s[k] ELSE tags[k]]

\* _qformat: "- a", "? tags" when there are tags, "+ b", "? tags"
QLines(aline, bline, at, bt) ==
    << <<"-", " ">> \o aline >>
    \o (IF at # <<>> THEN << <<"?", " ">> \o at \o <<"\n">> >> ELSE <<>>)
    \o << <<"+", " ">> \o bline >>
    \o (IF bt # <<>> THEN << <<"?", " ">> \o bt \o <<"\n">> >> ELSE <<>>)

QFormat(aline, bline, atags, btags) ==
    QLines(aline, bline, RStrip(KeepOriginalWs(aline, atags)),
           RStrip(KeepOriginalWs(bline, btags)))

\* _fancy_replace, the synch pair: the quad of a close pair with the tags
\* of its character opcodes, or the one entry of an identical pair
SynchQuad(aelt, belt, ops) == QFormat(aelt, belt, TagsFrom(ops, "a"), TagsFrom(ops, "b"))

SynchPair(aelt, belt, close) ==
    IF close THEN SynchQuad(aelt, belt, get_opcodes(aelt, belt))
    ELSE << <<" ", " ">> \o aelt >>

\* _fancy_helper with the body of _fancy_replace in its first branch; st is
\* the result of the search loop on the block. The entries before the
\* synch pair, the synch pair, the entries after it.
RECURSIVE FancyBlock(_, _, _, _, _, _, _)
FancyBlock(a, alo, ahi, b, blo, bhi, st) ==
    IF alo < ahi /\ blo < bhi
    THEN LET close == ~(st.num * 100 < 75 * st.den)
             best_i == IF close THEN st.bi ELSE st.eqi
             best_j == IF close THEN st.bj ELSE st.eqj
         IN IF ~close /\ st.eqi = -1 THEN PlainReplace(a, alo, ahi, b, blo, bhi)
            ELSE FancyBlock(a, alo, best_i, b, blo, best_j,
                            Search(a, alo, best_i, b, blo, best_j, 0, SearchStart))
                 \o SynchPair(At(a, best_i), At(b, best_j), close)
                 \o FancyBlock(a, best_i + 1, ahi, b, best_j + 1, bhi,
                               Search(a, best_i + 1, ahi, b, best_j + 1, bhi, 0, SearchStart))
    ELSE IF alo < ahi THEN Dump("-", a, alo, ahi)
    ELSE IF blo < bhi THEN Dump("+", b, blo, bhi)
    ELSE <<>>

FancyHelper(a, alo, ahi, b, blo, bhi) ==
    FancyBlock(a, alo, ahi, b, blo, bhi, Search(a, alo, ahi, b, blo, bhi, 0, SearchStart))

\* _fancy_replace is called on a block that is not empty on either side
FancyReplace(a, alo, ahi, b, blo, bhi) == FancyHelper(a, alo, ahi, b, blo, bhi)

\* Differ.compare: the entries of every opcode, in opcode order
RECURSIVE CompareOps(_, _, _)
CompareOps(ops, a, b) ==
    IF ops = <<>> THEN <<>>
    ELSE LET o == Head(ops)
             g == IF o[1] = "replace" THEN FancyReplace(a, o[2], o[3], b, o[4], o[5])
                  ELSE IF o[1] = "delete" THEN Dump("-", a, o[2], o[3])
                  ELSE IF o[1] = "insert" THEN Dump("+", b, o[4], o[5])
                  ELSE Dump(" ", a, o[2], o[3])
         IN g \o CompareOps(Tail(ops), a, b)

Compare(a, b) == CompareOps(get_opcodes(a, b), a, b)

\* ------------------------------------------------------------------- inputs
\* the lines the compared documents are made of: two lines that are
\* similar enough to synch on ("ab", "abc": ratio 0.8) and one that is not
LineSet == { <<"x">>, <<"a", "b">>, <<"a", "b", "c">> }

RECURSIVE SeqsUpTo(_, _)
SeqsUpTo(S, n) ==
    IF n = 0 THEN { <<>> }
    ELSE LET shorter == SeqsUpTo(S, n - 1)
         IN shorter \cup {Append(q, e) : q \in {r \in shorter : Len(r) = n - 1}, e \in S}

\* the text of a document whose lines are ls, as an extraction returns it
RECURSIVE JoinLines(_)
JoinLines(ls) ==
    IF ls = <<>> THEN <<>>
    ELSE IF Len(ls) = 1 THEN ls[1]
    ELSE ls[1] \o <<"\n">> \o JoinLines(Tail(ls))

ScenarioA == << <<"o", "n", "e">>, <<"t", "w", "o">>, <<"t", "h", "r", "e", "e">> >>
ScenarioB == << <<"o", "n", "e">>, <<"t", "h", "r", "e", "e">>, <<"f", "o", "u", "r">> >>

\* what the whole-document strategy returns for the documents of a run
PrimaryTexts == { <<>>, <<"x">>, <<"x", "\n", "a", "b">> }
\* what page.extract_text() returns for a page that has text
PageTexts == { <<"x", "\n">>, <<"a", "b">> }
\* str(e2) of a failure of the secondary strategy
FailureReasons == { "", "EOF marker not found" }

\* ------------------------------------------------------------- Worker state
VARIABLES
    pc,             \* position of Worker.run
    running,        \* Worker._is_running
    log,            \* the notifications emitted so far, in order
    cur,            \* the input extract_text works on (1 or 2)
    text,           \* text1, text2
    pages,          \* len(reader.pages)
    idx,            \* the page index i of the fallback loop
    acc,            \* the local text of the fallback loop
    lines1, lines2, \* the two line sequences
    diff,           \* list(differ.compare(lines1, lines2))
    k,              \* position of the formatting loop in diff
    result, added, removed,
    exc,            \* the message of the exception being raised
    ext,            \* history: how each extraction ended
    cancelAt,       \* history: Len(log) at the first stop(), or -1
    seenCleared,    \* history: Len(log) when a check first read the flag cleared
    enteredCleared, \* history: Len(log) when a stage was first entered with the flag cleared
    pageTexts,      \* history: what each page.extract_text() call returned, per input
    entryLen,       \* history: Len(log) when extract_text was last entered
    cancelPc,       \* history: the position of run at the first stop(), or "none"
    pagesAfter      \* history: the page.extract_text() calls made after the first stop()

\* ------------------------------------------------------ PDFComparator state
VARIABLES
    compare_btn,    \* compare_btn.isEnabled()
    cancel_btn,     \* cancel_btn.isEnabled()
    worker_thread,  \* "none" for None, "running" for a thread that isRunning()
    closed,         \* the close event of the window was accepted
    workers,        \* the workers created and not yet cleaned up
    runs,           \* the comparisons started so far
    closeIgnored    \* history: a close event was ignored since the last start

histVars == <<pageTexts, entryLen, cancelPc, pagesAfter>>
guiVars == <<compare_btn, cancel_btn, worker_thread, closed, workers, runs, closeIgnored>>

vars == <<pc, running, log, cur, text, pages, idx, acc, lines1, lines2, diff, k,
          result, added, removed, exc, ext, cancelAt, seenCleared, enteredCleared,
          histVars, guiVars>>

\* a notification: the signal, its payload and (history) whether run or the
\* page loop of extract_text emitted it
Notif(sig, val) == [sig |-> sig, val |-> val, at |-> "run"]
PageNotif(sig, val) == [sig |-> sig, val |-> val, at |-> "page"]
\* f'<span style="color:{color}">{line}</span>'
Span(color, line) == [color |-> color, text |-> line]
\* the trailing summary line with the two counts
Summary(a, r) == [color |-> "bold", text |-> <<"Total: ", a, " additions, ", r, " deletions">>]

\* Worker.__init__, in the window as start_comparison leaves it
Init ==
    /\ pc = "start"
    /\ running = TRUE
    /\ log = <<>>
    /\ cur = 1
    /\ text = [f \in 1..2 |-> <<>>]
    /\ pages = 0
    /\ idx = 0
    /\ acc = <<>>
    /\ lines1 = <<>>
    /\ lines2 = <<>>
    /\ diff = <<>>
    /\ k = 1
    /\ result = <<>>
    /\ added = 0
    /\ removed = 0
    /\ exc = ""
    /\ ext = [f \in 1..2 |-> "none"]
    /\ cancelAt = -1
    /\ seenCleared = -1
    /\ enteredCleared = -1
    /\ pageTexts = [f \in 1..2 |-> <<>>]
    /\ entryLen = 0
    /\ cancelPc = "none"
    /\ pagesAfter = 0
    /\ compare_btn = FALSE
    /\ cancel_btn = TRUE
    /\ worker_thread = "running"
    /\ closed = FALSE
    /\ workers = 1
    /\ runs = 1
    /\ closeIgnored = FALSE

extractVars == <<pages, idx, acc>>
diffVars == <<lines1, lines2, diff, k, result, added, removed>>

\* history: a stage is entered
EnterStage == enteredCleared' =
    IF ~running /\ enteredCleared = -1 THEN Len(log) ELSE enteredCleared
\* history: a check reads the flag
ReadFlag == seenCleared' =
    IF ~running /\ seenCleared = -1 THEN Len(log) ELSE seenCleared

\* mutant of stop: the call toggles the flag
stopToggles ==
    /\ running' = ~running
    /\ cancelAt' = IF cancelAt = -1 THEN Len(log) ELSE cancelAt
    /\ cancelPc' = IF cancelAt = -1 THEN pc ELSE cancelPc
    /\ UNCHANGED <<pc, log, cur, text, extractVars, diffVars, exc, ext,
                   seenCleared, enteredCleared, pageTexts, entryLen, pagesAfter>>

\* Worker.stop: what a call does to the worker
stop ==
    /\ running' = FALSE
    /\ cancelAt' = IF cancelAt = -1 THEN Len(log) ELSE cancelAt
    /\ cancelPc' = IF cancelAt = -1 THEN pc ELSE cancelPc
    /\ UNCHANGED <<pc, log, cur, text, extractVars, diffVars, exc, ext,
                   seenCleared, enteredCleared, pageTexts, entryLen, pagesAfter>>

\* a call of Worker.stop at any moment of the worker's life
Stop ==
    /\ stop
    /\ UNCHANGED guiVars

\* run, line 31: the status before the first extraction
Start ==
    /\ pc = "start"
    /\ log' = Append(log, Notif("status", <<"extracting", 1>>))
    /\ cur' = 1
    /\ pc' = "primary"
    /\ EnterStage
    /\ entryLen' = Len(log')
    /\ UNCHANGED <<running, text, extractVars, diffVars, exc, ext, cancelAt, seenCleared>>
    /\ UNCHANGED <<pageTexts, cancelPc, pagesAfter, guiVars>>

\* extract_text, lines 80-84: the whole-document strategy returns a text or fails
Primary ==
    /\ pc = "primary"
    /\ \/ \E t \in PrimaryTexts :
            /\ text' = [text EXCEPT ![cur] = t]
            /\ ext' = [ext EXCEPT ![cur] = "primary"]
            /\ pc' = "check"
       \/ /\ pc' = "open"
          /\ UNCHANGED <<text, ext>>
    /\ UNCHANGED <<running, log, cur, extractVars, diffVars, exc, cancelAt,
                   seenCleared, enteredCleared, histVars, guiVars>>

\* the exception extract_text raises when the secondary strategy fails
ExtractionError(reason) == "Text extraction error: " \o reason

\* extract_text, lines 86-89: PdfReader(pdf_path) opens the document or fails
OpenReader ==
    /\ pc = "open"
    /\ \/ \E n \in 0..MaxPages :
            /\ pages' = n
            /\ idx' = 0
            /\ acc' = <<>>
            /\ pc' = "loop"
            /\ UNCHANGED <<exc, ext>>
       \/ \E reason \in FailureReasons :
            /\ exc' = ExtractionError(reason)
            /\ ext' = [ext EXCEPT ![cur] = "failed"]
            /\ pc' = "except"
            /\ UNCHANGED extractVars
    /\ pageTexts' = [pageTexts EXCEPT ![cur] = <<>>]
    /\ UNCHANGED <<running, log, cur, text, diffVars, cancelAt, seenCleared, enteredCleared>>
    /\ UNCHANGED <<entryLen, cancelPc, pagesAfter, guiVars>>

\* mutant of FallbackProgress: the page being read counts as read
FallbackProgressCountsAhead(i, n) == FallbackBase + (((i + 1) * FallbackSpan) \div n)

\* progress = 10 + (i * 40 // len(reader.pages))
FallbackProgress(i, n) == FallbackBase + ((i * FallbackSpan) \div n)

\* extract_text, lines 89-91 and 95: the head of the page loop, with the
\* check of the flag, and the return after the last page
PageLoop ==
    /\ pc = "loop"
    /\ IF idx = pages
       THEN /\ text' = [text EXCEPT ![cur] = acc]
            /\ ext' = [ext EXCEPT ![cur] = "secondary"]
            /\ pc' = "check"
            /\ UNCHANGED seenCleared
       ELSE IF ~running
       THEN /\ text' = [text EXCEPT ![cur] = <<>>]
            /\ ext' = [ext EXCEPT ![cur] = "aborted"]
            /\ pc' = "check"
            /\ ReadFlag
       ELSE /\ pc' = "emit"
            /\ UNCHANGED <<text, ext, seenCleared>>
    /\ UNCHANGED <<running, log, cur, extractVars, diffVars, exc, cancelAt, enteredCleared>>
    /\ UNCHANGED <<histVars, guiVars>>

\* extract_text, lines 92-93: the progress of the page about to be read
PageProgress ==
    /\ pc = "emit"
    /\ log' = Append(log, PageNotif("progress", FallbackProgress(idx, pages)))
    /\ pc' = "page"
    /\ UNCHANGED <<running, cur, text, extractVars, diffVars, exc, ext, cancelAt,
                   seenCleared, enteredCleared, histVars, guiVars>>

\* mutant of PageExtract: the text of a page is put before the text read so far
PageExtractPrepends ==
    /\ pc = "page"
    /\ \/ \E t \in PageTexts \cup { <<>> } :
            /\ acc' = t \o acc
            /\ idx' = idx + 1
            /\ pc' = "loop"
            /\ pageTexts' = [pageTexts EXCEPT ![cur] = Append(@, t)]
            /\ UNCHANGED <<exc, ext>>
       \/ \E reason \in FailureReasons :
            /\ exc' = ExtractionError(reason)
            /\ ext' = [ext EXCEPT ![cur] = "failed"]
            /\ pc' = "except"
            /\ UNCHANGED <<acc, idx, pageTexts>>
    /\ pagesAfter' = IF running THEN pagesAfter ELSE pagesAfter + 1
    /\ UNCHANGED <<running, log, cur, text, pages, diffVars, cancelAt, seenCleared,
                   enteredCleared, entryLen, cancelPc, guiVars>>

\* extract_text, line 94: text += page.extract_text() or ""
PageExtract ==
    /\ pc = "page"
    /\ \/ \E t \in PageTexts \cup { <<>> } :
            /\ acc' = acc \o t
            /\ idx' = idx + 1
            /\ pc' = "loop"
            /\ pageTexts' = [pageTexts EXCEPT ![cur] = Append(@, t)]
            /\ UNCHANGED <<exc, ext>>
       \/ \E reason \in FailureReasons :
            /\ exc' = ExtractionError(reason)
            /\ ext' = [ext EXCEPT ![cur] = "failed"]
            /\ pc' = "except"
            /\ UNCHANGED <<acc, idx, pageTexts>>
    /\ pagesAfter' = IF running THEN pagesAfter ELSE pagesAfter + 1
    /\ UNCHANGED <<running, log, cur, text, pages, diffVars, cancelAt, seenCleared,
                   enteredCleared, entryLen, cancelPc, guiVars>>

\* mutant of Check: the flag is read and its value not acted on
CheckIgnoringFlag ==
    /\ pc = "check"
    /\ ReadFlag
    /\ log' = Append(log, Notif("progress",
                  IF cur = 1 THEN ProgressAfterFirst ELSE ProgressAfterSecond))
    /\ pc' = IF cur = 1 THEN "enter2" ELSE "compare"
    /\ UNCHANGED <<running, cur, text, extractVars, diffVars, exc, ext, cancelAt,
                   enteredCleared>>
    /\ UNCHANGED <<histVars, guiVars>>

\* run, lines 33-36 and 39-42: the check after an extraction and the
\* progress checkpoint that follows it
Check ==
    /\ pc = "check"
    /\ ReadFlag
    /\ IF ~running
       THEN /\ pc' = "finally"
            /\ UNCHANGED log
       ELSE /\ log' = Append(log, Notif("progress",
                         IF cur = 1 THEN ProgressAfterFirst ELSE ProgressAfterSecond))
            /\ pc' = IF cur = 1 THEN "enter2" ELSE "compare"
    /\ UNCHANGED <<running, cur, text, extractVars, diffVars, exc, ext, cancelAt,
                   enteredCleared>>
    /\ UNCHANGED <<histVars, guiVars>>

\* run, line 37: the status before the second extraction
Enter2 ==
    /\ pc = "enter2"
    /\ log' = Append(log, Notif("status", <<"extracting", 2>>))
    /\ cur' = 2
    /\ pc' = "primary"
    /\ EnterStage
    /\ entryLen' = Len(log')
    /\ UNCHANGED <<running, text, extractVars, diffVars, exc, ext, cancelAt, seenCleared>>
    /\ UNCHANGED <<pageTexts, cancelPc, pagesAfter, guiVars>>

\* run, lines 43-49: the comparison
CompareTexts ==
    /\ pc = "compare"
    /\ log' = Append(log, Notif("status", <<"comparing">>))
    /\ EnterStage
    /\ LET l1 == splitlines(text[1])
           l2 == splitlines(text[2])
       IN /\ lines1' = l1
          /\ lines2' = l2
          /\ diff' = Compare(l1, l2)
    /\ pc' = "format"
    /\ UNCHANGED <<running, cur, text, extractVars, k, result, added, removed, exc, ext,
                   cancelAt, seenCleared>>
    /\ UNCHANGED <<histVars, guiVars>>

\* run, lines 51-55: the checkpoint before formatting
FormatEnter ==
    /\ pc = "format"
    /\ log' = log \o << Notif("progress", ProgressBeforeFormat),
                        Notif("status", <<"formatting">>) >>
    /\ EnterStage
    /\ result' = <<>>
    /\ added' = 0
    /\ removed' = 0
    /\ k' = 1
    /\ pc' = "fmtloop"
    /\ UNCHANGED <<running, cur, text, extractVars, lines1, lines2, diff, exc, ext,
                   cancelAt, seenCleared>>
    /\ UNCHANGED <<histVars, guiVars>>

\* mutant of FormatLine: the removed count is not incremented
FormatLineRemovedNotCounted(line, res, a, r) ==
    IF StartsWith(line, "-", " ")
    THEN [result |-> Append(res, Span("red", line)), added |-> a, removed |-> r]
    ELSE IF StartsWith(line, "+", " ")
    THEN [result |-> Append(res, Span("green", line)), added |-> a + 1, removed |-> r]
    ELSE IF ~StartsWith(line, "?", " ")
    THEN [result |-> Append(res, Span("gray", line)), added |-> a, removed |-> r]
    ELSE [result |-> res, added |-> a, removed |-> r]

\* mutant of FormatLine: the colours of removed and added lines are exchanged
FormatLineColoursSwapped(line, res, a, r) ==
    IF StartsWith(line, "-", " ")
    THEN [result |-> Append(res, Span("green", line)), added |-> a, removed |-> r + 1]
    ELSE IF StartsWith(line, "+", " ")
    THEN [result |-> Append(res, Span("red", line)), added |-> a + 1, removed |-> r]
    ELSE IF ~StartsWith(line, "?", " ")
    THEN [result |-> Append(res, Span("gray", line)), added |-> a, removed |-> r]
    ELSE [result |-> res, added |-> a, removed |-> r]

\* str.lstrip
RECURSIVE LStrip(_)
LStrip(s) == IF s # <<>> /\ IsSpace(Head(s)) THEN LStrip(Tail(s)) ELSE s

\* mutant of FormatLine: the prefixes are looked for after the leading blanks
FormatLineStripsFirst(line, res, a, r) ==
    IF StartsWith(LStrip(line), "-", " ")
    THEN [result |-> Append(res, Span("red", line)), added |-> a, removed |-> r + 1]
    ELSE IF StartsWith(LStrip(line), "+", " ")
    THEN [result |-> Append(res, Span("green", line)), added |-> a + 1, removed |-> r]
    ELSE IF ~StartsWith(LStrip(line), "?", " ")
    THEN [result |-> Append(res, Span("gray", line)), added |-> a, removed |-> r]
    ELSE [result |-> res, added |-> a, removed |-> r]

\* run, lines 60-67: what one diff entry adds to the report and the counts
FormatLine(line, res, a, r) ==
    IF StartsWith(line, "-", " ")
    THEN [result |-> Append(res, Span("red", line)), added |-> a, removed |-> r + 1]
    ELSE IF StartsWith(line, "+", " ")
    THEN [result |-> Append(res, Span("green", line)), added |-> a + 1, removed |-> r]
    ELSE IF ~StartsWith(line, "?", " ")
    THEN [result |-> Append(res, Span("gray", line)), added |-> a, removed |-> r]
    ELSE [result |-> res, added |-> a, removed |-> r]

\* run, lines 56-67: one turn of the formatting loop
FormatStep ==
    /\ pc = "fmtloop"
    /\ k <= Len(diff)
    /\ ReadFlag
    /\ IF ~running
       THEN /\ pc' = "finally"
            /\ UNCHANGED <<k, result, added, removed>>
       ELSE LET f == FormatLine(diff[k], result, added, removed)
            IN /\ result' = f.result
               /\ added' = f.added
               /\ removed' = f.removed
               /\ k' = k + 1
               /\ pc' = "fmtloop"
    /\ UNCHANGED <<running, log, cur, text, extractVars, lines1, lines2, diff, exc, ext,
                   cancelAt, enteredCleared>>
    /\ UNCHANGED <<histVars, guiVars>>

\* mutant of FormatEnd: the result is emitted after the closing notifications
FormatEndResultLast ==
    /\ pc = "fmtloop"
    /\ k > Len(diff)
    /\ LET final == Append(result, Summary(added, removed))
       IN /\ result' = final
          /\ log' = log \o << Notif("progress", ProgressDone),
                              Notif("status", <<"done", Len(lines1), Len(lines2)>>),
                              Notif("result", final) >>
    /\ pc' = "finally"
    /\ UNCHANGED <<running, cur, text, extractVars, lines1, lines2, diff, k, added, removed,
                   exc, ext, cancelAt, seenCleared, enteredCleared>>
    /\ UNCHANGED <<histVars, guiVars>>

\* run, lines 69-72: the summary line, the result and the closing notifications
FormatEnd ==
    /\ pc = "fmtloop"
    /\ k > Len(diff)
    /\ LET final == Append(result, Summary(added, removed))
       IN /\ result' = final
          /\ log' = log \o << Notif("result", final),
                              Notif("progress", ProgressDone),
                              Notif("status", <<"done", Len(lines1), Len(lines2)>>) >>
    /\ pc' = "finally"
    /\ UNCHANGED <<running, cur, text, extractVars, lines1, lines2, diff, k, added, removed,
                   exc, ext, cancelAt, seenCleared, enteredCleared>>
    /\ UNCHANGED <<histVars, guiVars>>

\* mutant of Except: the exception is swallowed
ExceptSwallowed ==
    /\ pc = "except"
    /\ pc' = "finally"
    /\ UNCHANGED <<running, log, cur, text, extractVars, diffVars, exc, ext, cancelAt,
                   seenCleared, enteredCleared>>
    /\ UNCHANGED <<histVars, guiVars>>

\* mutant of Except: after the error run goes on with the next stage
ExceptGoesOn ==
    /\ pc = "except"
    /\ log' = Append(log, Notif("error", "Error: " \o exc))
    /\ pc' = IF cur = 1 THEN "enter2" ELSE "compare"
    /\ UNCHANGED <<running, cur, text, extractVars, diffVars, exc, ext, cancelAt,
                   seenCleared, enteredCleared>>
    /\ UNCHANGED <<histVars, guiVars>>

\* run, lines 74-75: except Exception as e
Except ==
    /\ pc = "except"
    /\ log' = Append(log, Notif("error", "Error: " \o exc))
    /\ pc' = "finally"
    /\ UNCHANGED <<running, cur, text, extractVars, diffVars, exc, ext, cancelAt,
                   seenCleared, enteredCleared>>
    /\ UNCHANGED <<histVars, guiVars>>

\* mutant of Finally: finished is emitted at the end of the try block, so
\* not after an exception
FinallyAtEndOfTry ==
    /\ pc = "finally"
    /\ log' = IF exc = "" THEN Append(log, Notif("finished", <<>>)) ELSE log
    /\ pc' = "done"
    /\ UNCHANGED <<running, cur, text, extractVars, diffVars, exc, ext, cancelAt,
                   seenCleared, enteredCleared>>
    /\ UNCHANGED <<histVars, guiVars>>

\* run, lines 76-77: finally
Finally ==
    /\ pc = "finally"
    /\ log' = Append(log, Notif("finished", <<>>))
    /\ pc' = "done"
    /\ UNCHANGED <<running, cur, text, extractVars, diffVars, exc, ext, cancelAt,
                   seenCleared, enteredCleared>>
    /\ UNCHANGED <<histVars, guiVars>>

Next ==
    \/ Stop
    \/ Start
    \/ Primary
    \/ OpenReader
    \/ PageLoop
    \/ PageProgress
    \/ PageExtract
    \/ Check
    \/ Enter2
    \/ CompareTexts
    \/ FormatEnter
    \/ FormatStep
    \/ FormatEnd
    \/ Except
    \/ Finally

Spec == Init /\ [][Next]_vars

\* ------------------------------------------- the comparison on its own
\* Every pair of documents of at most MaxLines lines over LineSet, and the
\* documents of the three-line scenario: the worker after two extractions
\* by the primary strategy, before the check that follows the second one.
LineSeqs == SeqsUpTo(LineSet, MaxLines)
DiffInputs == (LineSeqs \X LineSeqs) \cup { <<ScenarioA, ScenarioB>> }

InitDiff ==
    /\ \E in \in DiffInputs :
          text = [f \in 1..2 |-> JoinLines(in[f])]
    /\ pc = "check"
    /\ running = TRUE
    /\ log = << Notif("status", <<"extracting", 1>>),
                Notif("progress", ProgressAfterFirst),
                Notif("status", <<"extracting", 2>>) >>
    /\ cur = 2
    /\ pages = 0
    /\ idx = 0
    /\ acc = <<>>
    /\ lines1 = <<>>
    /\ lines2 = <<>>
    /\ diff = <<>>
    /\ k = 1
    /\ result = <<>>
    /\ added = 0
    /\ removed = 0
    /\ exc = ""
    /\ ext = [f \in 1..2 |-> "primary"]
    /\ cancelAt = -1
    /\ seenCleared = -1
    /\ enteredCleared = -1
    /\ pageTexts = [f \in 1..2 |-> <<>>]
    /\ entryLen = 3
    /\ cancelPc = "none"
    /\ pagesAfter = 0
    /\ compare_btn = FALSE
    /\ cancel_btn = TRUE
    /\ worker_thread = "running"
    /\ closed = FALSE
    /\ workers = 1
    /\ runs = 1
    /\ closeIgnored = FALSE

NextDiff ==
    \/ Check
    \/ CompareTexts
    \/ FormatEnter
    \/ FormatStep
    \/ FormatEnd
    \/ Finally

SpecDiff == InitDiff /\ [][NextDiff]_vars

\* ------------------------------- the comparison of lines that look like entries
\* Documents whose lines begin with the prefixes of diff entries; "- x" and
\* "- xy" are similar enough to synch on, so that hints occur.
FmtLineSet == { <<"-", " ", "x">>, <<"-", " ", "x", "y">>, <<"+", " ", "x">>,
                <<"?", " ", "x">> }
FmtInputs == SeqsUpTo(FmtLineSet, MaxFmtLines) \X SeqsUpTo(FmtLineSet, MaxFmtLines)

InitFmt ==
    /\ \E in \in FmtInputs :
          text = [f \in 1..2 |-> JoinLines(in[f])]
    /\ pc = "check"
    /\ running = TRUE
    /\ log = << Notif("status", <<"extracting", 1>>),
                Notif("progress", ProgressAfterFirst),
                Notif("status", <<"extracting", 2>>) >>
    /\ cur = 2
    /\ pages = 0
    /\ idx = 0
    /\ acc = <<>>
    /\ lines1 = <<>>
    /\ lines2 = <<>>
    /\ diff = <<>>
    /\ k = 1
    /\ result = <<>>
    /\ added = 0
    /\ removed = 0
    /\ exc = ""
    /\ ext = [f \in 1..2 |-> "primary"]
    /\ cancelAt = -1
    /\ seenCleared = -1
    /\ enteredCleared = -1
    /\ pageTexts = [f \in 1..2 |-> <<>>]
    /\ entryLen = 3
    /\ cancelPc = "none"
    /\ pagesAfter = 0
    /\ compare_btn = FALSE
    /\ cancel_btn = TRUE
    /\ worker_thread = "running"
    /\ closed = FALSE
    /\ workers = 1
    /\ runs = 1
    /\ closeIgnored = FALSE

SpecFmt == InitFmt /\ [][NextDiff]_vars

\* ------------------------------------------------------------- the window
\* PDFComparator with the worker it starts: comparisons are started from the
\* compare button, cancelled from the cancel button, the window may be asked
\* to close at any moment, and cleanup runs when the worker's finished is
\* delivered. pc = "none" when there is no worker whose finished is yet to
\* be handled.

\* PDFComparator.__init__ and init_ui: no worker yet
InitGui ==
    /\ pc = "none"
    /\ running = TRUE
    /\ log = <<>>
    /\ cur = 1
    /\ text = [f \in 1..2 |-> <<>>]
    /\ pages = 0
    /\ idx = 0
    /\ acc = <<>>
    /\ lines1 = <<>>
    /\ lines2 = <<>>
    /\ diff = <<>>
    /\ k = 1
    /\ result = <<>>
    /\ added = 0
    /\ removed = 0
    /\ exc = ""
    /\ ext = [f \in 1..2 |-> "none"]
    /\ cancelAt = -1
    /\ seenCleared = -1
    /\ enteredCleared = -1
    /\ pageTexts = [f \in 1..2 |-> <<>>]
    /\ entryLen = 0
    /\ cancelPc = "none"
    /\ pagesAfter = 0
    /\ compare_btn = TRUE
    /\ cancel_btn = FALSE
    /\ worker_thread = "none"
    /\ closed = FALSE
    /\ workers = 0
    /\ runs = 0
    /\ closeIgnored = FALSE

\* Worker(file1, file2), line 251: a new worker, as Init describes it
NewWorker ==
    /\ pc' = "start"
    /\ running' = TRUE
    /\ log' = <<>>
    /\ cur' = 1
    /\ text' = [f \in 1..2 |-> <<>>]
    /\ pages' = 0
    /\ idx' = 0
    /\ acc' = <<>>
    /\ lines1' = <<>>
    /\ lines2' = <<>>
    /\ diff' = <<>>
    /\ k' = 1
    /\ result' = <<>>
    /\ added' = 0
    /\ removed' = 0
    /\ exc' = ""
    /\ ext' = [f \in 1..2 |-> "none"]
    /\ cancelAt' = -1
    /\ seenCleared' = -1
    /\ enteredCleared' = -1
    /\ pageTexts' = [f \in 1..2 |-> <<>>]
    /\ entryLen' = 0
    /\ cancelPc' = "none"
    /\ pagesAfter' = 0

\* mutant of StartComparison: the compare button is left enabled
StartComparisonLeavesCompareEnabled ==
    /\ ~closed
    /\ compare_btn
    /\ runs < MaxRuns
    /\ \E valid \in BOOLEAN :
          IF ~valid THEN UNCHANGED vars
          ELSE /\ NewWorker
               /\ compare_btn' = TRUE
               /\ cancel_btn' = TRUE
               /\ worker_thread' = "running"
               /\ workers' = workers + 1
               /\ runs' = runs + 1
               /\ closeIgnored' = FALSE
               /\ UNCHANGED closed

\* start_comparison, lines 230-262, on a click of the compare button: with
\* two paths of existing files a worker is created and started in its
\* thread, otherwise a message is shown and nothing changes
StartComparison ==
    /\ ~closed
    /\ compare_btn
    /\ runs < MaxRuns
    /\ \E valid \in BOOLEAN :
          IF ~valid THEN UNCHANGED vars
          ELSE /\ NewWorker
               /\ compare_btn' = FALSE
               /\ cancel_btn' = TRUE
               /\ worker_thread' = "running"
               /\ workers' = workers + 1
               /\ runs' = runs + 1
               /\ closeIgnored' = FALSE
               /\ UNCHANGED closed

\* cleanup, lines 276-284, the slot of the worker's finished
Cleanup ==
    /\ pc = "done"
    /\ IF worker_thread # "none"
       THEN worker_thread' = "none" /\ workers' = workers - 1
       ELSE UNCHANGED <<worker_thread, workers>>
    /\ compare_btn' = TRUE
    /\ cancel_btn' = FALSE
    /\ pc' = "none"
    /\ UNCHANGED <<running, log, cur, text, extractVars, diffVars, exc, ext, cancelAt,
                   seenCleared, enteredCleared, histVars, closed, runs, closeIgnored>>

\* cancel_operation, lines 287-290, with a thread that is running
Cancelling ==
    /\ stop
    /\ cancel_btn' = FALSE
    /\ UNCHANGED <<compare_btn, worker_thread, closed, workers, runs>>

\* cancel_operation, lines 286-290, on a click of the cancel button
CancelOperation ==
    /\ ~closed
    /\ cancel_btn
    /\ IF worker_thread = "running"
       THEN Cancelling /\ UNCHANGED closeIgnored
       ELSE UNCHANGED vars

\* mutant of CloseEvent: the close event is accepted whatever the thread does
CloseEventAlwaysAccepts ==
    /\ ~closed
    /\ closed' = TRUE
    /\ UNCHANGED <<pc, running, log, cur, text, extractVars, diffVars, exc, ext,
                   cancelAt, seenCleared, enteredCleared, histVars, compare_btn,
                   cancel_btn, worker_thread, workers, runs, closeIgnored>>

\* closeEvent, lines 292-297: the window is asked to close
CloseEvent ==
    /\ ~closed
    /\ IF worker_thread = "running"
       THEN Cancelling /\ closeIgnored' = TRUE
       ELSE /\ closed' = TRUE
            /\ UNCHANGED <<pc, running, log, cur, text, extractVars, diffVars, exc, ext,
                           cancelAt, seenCleared, enteredCleared, histVars, compare_btn,
                           cancel_btn, worker_thread, workers, runs, closeIgnored>>

NextGui ==
    \/ StartComparison
    \/ CancelOperation
    \/ CloseEvent
    \/ Cleanup
    \/ Start
    \/ Primary
    \/ OpenReader
    \/ PageLoop
    \/ PageProgress
    \/ PageExtract
    \/ Check
    \/ Enter2
    \/ CompareTexts
    \/ FormatEnter
    \/ FormatStep
    \/ FormatEnd
    \/ Except
    \/ Finally

SpecGui == InitGui /\ [][NextGui]_vars

\* ------------------------------------------------------------ notifications
Count(sig) == Cardinality({i \in 1..Len(log) : log[i].sig = sig})
Positions(sig) == {i \in 1..Len(log) : log[i].sig = sig}

\* the notifications emitted after the first n, all "finished"
OnlyFinishedAfter(n) == \A i \in (n + 1)..Len(log) : log[i].sig = "finished"

\* the log without the per-page progress of the fallback strategy
RECURSIVE RunPart(_)
RunPart(l) ==
    IF l = <<>> THEN <<>>
    ELSE IF Head(l).at = "page" THEN RunPart(Tail(l))
    ELSE <<Head(l)>> \o RunPart(Tail(l))

\* a step of the worker other than the comparison (stop() is not a step of
\* the worker); the comparison has no condition but its position in run
StepButCompare ==
    \/ Start \/ Primary \/ OpenReader \/ PageLoop \/ PageProgress \/ PageExtract
    \/ Check \/ Enter2
    \/ FormatEnter \/ FormatStep \/ FormatEnd \/ Except \/ Finally

CanStep == pc = "compare" \/ ENABLED StepButCompare

\* ------------------------------------------------------------------- claims

\* C1: whatever the outcome of run (success, stop() at any point, a failure
\* of an extraction), finished is emitted exactly once and nothing is
\* emitted after it: before the end of run no finished has been emitted and
\* the worker can still take a step; at the end of run there is exactly one
\* finished and it is the last notification.
C1_FinishedOnceAndLast ==
    /\ pc # "done" => Count("finished") = 0 /\ CanStep
    /\ pc = "done" => /\ Count("finished") = 1
                      /\ log[Len(log)].sig = "finished"
                      /\ ~CanStep

C1_Witness ==
    /\ pc = "done"
    /\ cancelAt >= 0
    /\ Count("error") = 1
    /\ Count("finished") = 1

\* C2 (as claimed): when stop() is called before any progress notification,
\* the run ends with no result, no error and exactly one finished, whatever
\* the two extraction strategies do.
C2_CancelBeforeProgress ==
    (/\ pc = "done"
     /\ cancelAt >= 0
     /\ \A i \in 1..cancelAt : log[i].sig # "progress")
    => /\ Count("result") = 0
       /\ Count("error") = 0
       /\ Count("finished") = 1

\* C3 (as claimed): when a stage is entered with the flag already cleared,
\* nothing but finished is emitted from then on.
C3_EntryCheck == enteredCleared >= 0 => OnlyFinishedAfter(enteredCleared)

\* C3 (amended): the flag is read after each extraction, before each page of
\* the fallback loop and before each diff entry of the formatting loop; once
\* one of these checks has read the flag cleared, the worker does no further
\* stage work and emits nothing but finished.
C3_CheckpointShortCircuits ==
    seenCleared >= 0 =>
        /\ pc \in {"check", "finally", "done"}
        /\ OnlyFinishedAfter(seenCleared)

C3_Witness ==
    /\ pc = "done"
    /\ seenCleared >= 2
    /\ enteredCleared = -1
    /\ Len(log) = seenCleared + 1

\* C4: when both strategies fail for one of the inputs, the run emits error
\* exactly once, with a message that is not empty, never result, and
\* finished exactly once.
C4_BothStrategiesFail ==
    (pc = "done" /\ \E f \in 1..2 : ext[f] = "failed") =>
        /\ Count("error") = 1
        /\ \A i \in Positions("error") : Len(log[i].val) > 0
        /\ Count("result") = 0
        /\ Count("finished") = 1

C4_Witness ==
    /\ pc = "done"
    /\ ext[1] = "secondary"
    /\ ext[2] = "failed"
    /\ cancelAt = -1

\* the notifications of run in a run that is neither cancelled nor fails
UndisturbedRun == pc = "done" /\ cancelAt = -1 /\ Count("error") = 0

Has(sig, val) == \E i \in 1..Len(log) : log[i].sig = sig /\ log[i].val = val

\* C5 (as claimed): progress 100, then the final status, then the result
C5_ResultAfterFinalStatus ==
    UndisturbedRun =>
        \E p, q, r \in 1..Len(log) :
            /\ log[p].sig = "progress" /\ log[p].val = ProgressDone
            /\ log[q].sig = "status" /\ log[q].val[1] = "done"
            /\ log[r].sig = "result"
            /\ p < q /\ q < r

\* C5 (amended): leaving the per-page progress aside, an undisturbed run
\* emits: the status of the first extraction, progress 30, the status of
\* the second extraction, progress 60, the status of the comparison,
\* progress 80, the status of the formatting, the result, progress 100, the
\* final status with the two line counts, finished.
C5_NotificationOrder ==
    UndisturbedRun =>
        RunPart(log) = << Notif("status", <<"extracting", 1>>),
                          Notif("progress", ProgressAfterFirst),
                          Notif("status", <<"extracting", 2>>),
                          Notif("progress", ProgressAfterSecond),
                          Notif("status", <<"comparing">>),
                          Notif("progress", ProgressBeforeFormat),
                          Notif("status", <<"formatting">>),
                          Notif("result", result),
                          Notif("progress", ProgressDone),
                          Notif("status", <<"done", Len(splitlines(text[1])),
                                            Len(splitlines(text[2]))>>),
                          Notif("finished", <<>>) >>

C5_Witness ==
    /\ UndisturbedRun
    /\ ext[1] = "primary"
    /\ ext[2] = "secondary"
    /\ \E i \in 1..Len(log) : log[i].at = "page"
    /\ Count("result") = 1

\* ------------------------------------------------------- the diff entries
\* the kind of a diff entry, by the prefixes the formatter tests
EntryKind(line) ==
    IF StartsWith(line, "-", " ") THEN "removed"
    ELSE IF StartsWith(line, "+", " ") THEN "added"
    ELSE IF StartsWith(line, "?", " ") THEN "hint"
    ELSE "unchanged"

\* the line of an entry: the entry without its two-character prefix
Payload(line) == SubSeq(line, 3, Len(line))

\* the lines of the entries of d whose kind is in kinds, in output order
RECURSIVE Keep(_, _)
Keep(d, kinds) ==
    IF d = <<>> THEN <<>>
    ELSE (IF EntryKind(Head(d)) \in kinds THEN <<Payload(Head(d))>> ELSE <<>>)
         \o Keep(Tail(d), kinds)

KindsIn(d) == {EntryKind(d[i]) : i \in 1..Len(d)}

\* the report and the counts of the formatting loop run over all of d
RECURSIVE FormatFrom(_, _, _)
FormatFrom(d, i, f) ==
    IF i > Len(d) THEN f
    ELSE FormatFrom(d, i + 1, FormatLine(d[i], f.result, f.added, f.removed))

CountsOf(d) == FormatFrom(d, 1, [result |-> <<>>, added |-> 0, removed |-> 0])

\* the comparison has run
Compared == pc \in {"format", "fmtloop", "finally", "done"}

\* C6: the Unchanged and Removed entries of the diff, in output order,
\* give back the first line sequence, and the Unchanged and Added entries
\* give back the second one.
C6_DiffReconstructsInputs ==
    Compared =>
        /\ Keep(diff, {"unchanged", "removed"}) = lines1
        /\ Keep(diff, {"unchanged", "added"}) = lines2

C6_Witness ==
    /\ Compared
    /\ KindsIn(diff) = {"unchanged", "removed", "added", "hint"}

\* C7 (as claimed): the counts of diff(a, b) are the counts of diff(b, a)
\* with added and removed exchanged.
C7_CountsSymmetric ==
    pc = "done" =>
        /\ added = CountsOf(Compare(lines2, lines1)).removed
        /\ removed = CountsOf(Compare(lines2, lines1)).added

\* C7 (amended): the difference of the two counts changes sign when the
\* inputs are exchanged, added(a,b) - removed(a,b) = removed(b,a) - added(b,a),
\* and it is len(b) - len(a); the counts themselves need not agree.
C7_NetChangeAntisymmetric ==
    pc = "done" =>
        /\ added - removed = CountsOf(Compare(lines2, lines1)).removed
                             - CountsOf(Compare(lines2, lines1)).added
        /\ added - removed = Len(lines2) - Len(lines1)

C7_Witness ==
    /\ pc = "done"
    /\ added # CountsOf(Compare(lines2, lines1)).removed
    /\ removed # CountsOf(Compare(lines2, lines1)).added

\* C8: comparing a line sequence with itself yields one Unchanged entry per
\* line, in order, and nothing else; both counts are zero.
C8_IdenticalInputs ==
    (Compared /\ lines1 = lines2) =>
        /\ diff = [i \in 1..Len(lines1) |-> <<" ", " ">> \o lines1[i]]
        /\ pc = "done" => added = 0 /\ removed = 0

C8_Witness ==
    /\ pc = "done"
    /\ lines1 = lines2
    /\ Len(lines1) >= 2
    /\ lines1[1] # lines1[2]
    /\ added = 0

\* C9: for a = one, two, three and b = one, three, four the counts are
\* added 1, removed 1, and the report is "one" unchanged, "two" removed,
\* "three" unchanged, "four" added, then the summary line with 1 and 1.
C9_Scenario ==
    (pc = "done" /\ lines1 = ScenarioA /\ lines2 = ScenarioB) =>
        /\ added = 1
        /\ removed = 1
        /\ result = << Span("gray", <<" ", " ">> \o ScenarioA[1]),
                       Span("red", <<"-", " ">> \o ScenarioA[2]),
                       Span("gray", <<" ", " ">> \o ScenarioA[3]),
                       Span("green", <<"+", " ">> \o ScenarioB[3]),
                       Summary(1, 1) >>
        /\ Has("result", result)

C9_Witness ==
    /\ pc = "done"
    /\ lines1 = ScenarioA
    /\ lines2 = ScenarioB
    /\ Count("result") = 1

\* C10: with an empty first sequence the diff is one Added entry per line of
\* the second sequence (no entry when both are empty), added is the length
\* of the second sequence and removed is 0; when both are empty the report
\* is the summary line alone.
C10_EmptyInputs ==
    (Compared /\ lines1 = <<>>) =>
        /\ diff = [i \in 1..Len(lines2) |-> <<"+", " ">> \o lines2[i]]
        /\ pc = "done" =>
              /\ added = Len(lines2)
              /\ removed = 0
              /\ lines2 = <<>> => result = << Summary(0, 0) >>

C10_Witness ==
    /\ pc = "done"
    /\ lines1 = <<>>
    /\ lines2 = << <<"x">> >>
    /\ added = 1
    /\ removed = 0

\* ------------------------------------------------------- the two strategies
\* the texts of ss one after the other
RECURSIVE Flatten(_)
Flatten(ss) == IF ss = <<>> THEN <<>> ELSE Head(ss) \o Flatten(Tail(ss))

\* C11: when the whole-document strategy fails and the page loop runs to its
\* end, extract_text returns the texts of the pages, one per page, joined in
\* page order; the failure of the first strategy leaves no trace: no error
\* has been emitted and no exception is pending when extract_text returns,
\* and a run that is not cancelled and in which no extraction fails ends
\* with a result and without an error.
C11_FallbackConcatenation ==
    /\ \A f \in 1..2 :
          ext[f] = "secondary" =>
              /\ text[f] = Flatten(pageTexts[f])
              /\ f = cur => Len(pageTexts[f]) = pages
    /\ (pc = "check" /\ ext[cur] = "secondary") =>
          /\ Count("error") = 0
          /\ exc = ""
    /\ (/\ pc = "done"
        /\ cancelAt = -1
        /\ \E f \in 1..2 : ext[f] = "secondary"
        /\ \A f \in 1..2 : ext[f] # "failed") =>
          /\ Count("result") = 1
          /\ Count("error") = 0

C11_Witness ==
    /\ pc = "done"
    /\ cancelAt = -1
    /\ ext[1] = "secondary"
    /\ Len(pageTexts[1]) = 2
    /\ pageTexts[1][1] # <<>>
    /\ pageTexts[1][2] # <<>>
    /\ pageTexts[1][1] # pageTexts[1][2]
    /\ Count("result") = 1

\* C12: stop() is idempotent and harmless: once the flag is cleared no step
\* sets it again; a call of stop() with the flag already cleared changes
\* nothing at all; no call of stop() emits a notification or moves the
\* worker; and after finished the notifications delivered stay as they are,
\* whatever is called.
C12_StopIdempotent ==
    [][/\ ~running => ~running'
       /\ (Stop /\ ~running) => UNCHANGED vars
       /\ Stop => (log' = log /\ pc' = pc)
       /\ pc = "done" => (log' = log /\ pc' = "done")]_vars

C12_Witness ==
    /\ pc = "done"
    /\ ~running
    /\ cancelAt = Len(log)
    /\ cancelPc = "done"
    /\ Count("result") = 1
    /\ log[Len(log)].sig = "finished"

\* the pages the current extract_text call has started: one progress
\* notification of the page loop each
PagesStarted == Cardinality({i \in (entryLen + 1)..Len(log) : log[i].at = "page"})

\* C13: the failure of a single page never makes extract_text fail: an
\* extraction that has started a page does not end in a failure.
C13_PageFailureRecovered == ext[cur] = "failed" => PagesStarted = 0

\* the first stop() came while the page loop of extract_text was running
CancelInLoop == cancelPc \in {"loop", "emit", "page"}

\* the progress notifications of the page loop emitted after the first stop()
PageProgressAfterCancel ==
    Cardinality({i \in (cancelAt + 1)..Len(log) : log[i].at = "page"})

\* C14: when stop() is called while the page loop is running, at most one
\* further page is extracted and at most one further progress notification
\* is emitted, the extraction does not fail and the text of an extraction
\* stopped at the per-page check is empty, no error and no result follows
\* the call, and the run ends with exactly one finished.
C14_CancelInPageLoop ==
    CancelInLoop =>
        /\ pagesAfter <= 1
        /\ PageProgressAfterCancel <= 1
        /\ ext[cur] # "failed"
        /\ ext[cur] = "aborted" => text[cur] = <<>>
        /\ \A i \in (cancelAt + 1)..Len(log) : log[i].sig \notin {"error", "result"}
        /\ pc = "done" => (Count("finished") = 1 /\ log[Len(log)].sig = "finished")

\* an extraction has failed
Failed == \E f \in 1..2 : ext[f] = "failed"

\* C15: a failure of an extraction ends the stages of run: after a failure
\* of the first extraction the second one is never started, after a failure
\* of either the comparison and the formatting never run, the failure is
\* reported by exactly one error, nothing but finished follows the error,
\* and no run emits both a result and an error.
C15_FailureAbortsRun ==
    /\ ext[1] = "failed" =>
          /\ ext[2] = "none"
          /\ cur = 1
          /\ ~Has("status", <<"extracting", 2>>)
    /\ Failed =>
          /\ pc \in {"except", "finally", "done"}
          /\ ~Has("status", <<"comparing">>)
          /\ ~Has("status", <<"formatting">>)
          /\ diff = <<>> /\ result = <<>>
          /\ Count("error") = (IF pc = "except" THEN 0 ELSE 1)
    /\ Count("error") <= 1
    /\ \A i \in Positions("error") : OnlyFinishedAfter(i)
    /\ Count("error") = 1 => Failed
    /\ ~(Count("result") > 0 /\ Count("error") > 0)

C15_Witness ==
    /\ pc = "done"
    /\ ext[1] = "primary"
    /\ ext[2] = "failed"
    /\ PagesStarted = 2
    /\ Count("error") = 1
    /\ log[Len(log)].sig = "finished"
    /\ log[Len(log) - 1].sig = "error"

\* run is inside extract_text
Extracting == pc \in {"primary", "open", "loop", "emit", "page"}

\* C17: extract_text emits progress on the fallback path only. A call that
\* the whole-document strategy serves emits nothing; whatever a call emits
\* is a progress notification of the page loop; the progress emitted for a
\* page is 10 + (pages read so far * 40) div (number of pages), the pages
\* taken in order, and lies between 10 and 50.
C17_FallbackProgressOnly ==
    /\ (pc = "check" /\ ext[cur] = "primary") => Len(log) = entryLen
    /\ ext[cur] = "primary" => PagesStarted = 0
    /\ (Extracting \/ pc = "check") =>
          \A i \in (entryLen + 1)..Len(log) :
              log[i].sig = "progress" /\ log[i].at = "page"
    /\ \A i \in 1..Len(log) :
          log[i].at = "page" =>
              /\ log[i].sig = "progress"
              /\ log[i].val \in 10..50
              /\ i > entryLen =>
                    log[i].val = 10 + (((i - entryLen - 1) * 40) \div pages)

C17_Witness ==
    /\ pc = "check"
    /\ cur = 2
    /\ ext[1] = "primary"
    /\ ext[2] = "secondary"
    /\ pages = 2
    /\ PagesStarted = 2
    /\ log[Len(log)].val = 30
    /\ log[Len(log) - 1].val = 10

\* C19: every progress value is an integer in 0..100 and the progress
\* values of a run never decrease.
C19_ProgressMonotone ==
    /\ \A i \in Positions("progress") : log[i].val \in 0..100
    /\ \A i, j \in Positions("progress") : i < j => log[i].val <= log[j].val

\* ------------------------------------------------------------ the formatter
\* the tag Differ puts in front of a line: the first character of the entry
Tag(entry) == entry[1]

ColourOf(tag) == IF tag = "-" THEN "red" ELSE IF tag = "+" THEN "green" ELSE "gray"

\* one report line per entry of d that is not a hint, in order
RECURSIVE Render(_)
Render(d) ==
    IF d = <<>> THEN <<>>
    ELSE (IF Tag(Head(d)) = "?" THEN <<>>
          ELSE <<Span(ColourOf(Tag(Head(d))), Head(d))>>) \o Render(Tail(d))

Tagged(d, tag) == Cardinality({i \in 1..Len(d) : Tag(d[i]) = tag})

\* C18: the report has one body line per Removed, Added or Unchanged entry
\* of the diff, in diff order and in the colour of its kind, and none for a
\* hint; the summary line follows. added is the number of Added entries and
\* removed the number of Removed entries, whatever the lines begin with:
\* together with the Unchanged entries they account for every line of the
\* second and of the first document.
C18_FormatterCounts ==
    pc = "done" =>
        /\ result = Append(Render(diff), Summary(added, removed))
        /\ Len(result) = Len(diff) - Tagged(diff, "?") + 1
        /\ added = Tagged(diff, "+")
        /\ removed = Tagged(diff, "-")
        /\ added + Tagged(diff, " ") = Len(lines2)
        /\ removed + Tagged(diff, " ") = Len(lines1)

C18_Witness ==
    /\ pc = "done"
    /\ {Tag(diff[i]) : i \in 1..Len(diff)} = {" ", "-", "+", "?"}
    /\ \E i \in 1..Len(diff) : Tag(diff[i]) = " " /\ StartsWith(Payload(diff[i]), "-", " ")
    /\ \E i \in 1..Len(diff) : Tag(diff[i]) = "+" /\ StartsWith(Payload(diff[i]), "-", " ")
    /\ added = 1
    /\ removed = 1

\* C16: no two comparisons run at the same time. From the creation of a
\* worker until cleanup has handled its finished the compare button is
\* disabled, so there is never more than one worker; while there is no
\* worker (before the first comparison and after every outcome) the compare
\* button is enabled and the cancel button disabled.
C16_OneWorkerAtATime ==
    /\ workers <= 1
    /\ workers = 1 <=> worker_thread = "running"
    /\ pc # "none" => worker_thread = "running"
    /\ worker_thread = "running" => ~compare_btn
    /\ worker_thread = "none" => (compare_btn /\ ~cancel_btn)

C16_Witness ==
    /\ runs = 2
    /\ pc = "none"
    /\ worker_thread = "none"
    /\ compare_btn
    /\ ~cancel_btn
    /\ Count("error") = 1
    /\ cancelAt >= 0

\* C20: the window closes only when no worker thread is running. A close
\* event that finds a running thread is ignored and clears the worker's
\* flag, as a cancel request does; once the window is closed there is no
\* worker and no run in progress.
C20_CloseOnlyWhenIdle ==
    /\ closed => (worker_thread = "none" /\ workers = 0 /\ pc = "none")
    /\ closeIgnored => (~running /\ cancelAt >= 0)
    /\ (closeIgnored /\ worker_thread = "running") => (~closed /\ ~cancel_btn)

C20_Witness ==
    /\ closed
    /\ closeIgnored
    /\ runs = 1
    /\ cancelPc = "page"
    /\ log[Len(log)].sig = "finished"
====
